---- MODULE Spec2Model ----
(***************************************************************************)
(* Model of the import-directory parser of Manalyze (manape/imports.cpp):  *)
(* PE::_parse_imports and the query functions built on the parsed table.   *)
(*                                                                         *)
(* The image is a byte sequence `file`; every read of the parser is a read *)
(* of bytes at the file cursor, decoded little-endian with the widths the  *)
(* code uses.  Values wider than 31 bits are kept as byte tuples (the      *)
(* in-memory representation of the fields), so that masks and top-bit tests *)
(* are computed on the real widths.                                        *)
(***************************************************************************)
EXTENDS Integers, Sequences, FiniteSets, TLC

VARIABLES
    file,          \* the bytes of the image (never written)
    ioh,           \* _ioh: the optional header, or NoHeader
    dirRva,        \* RVA of data directory IMAGE_DIRECTORY_ENTRY_IMPORT
    params,        \* description of the input the file was built from
    cursor,        \* position of _file_handle
    pc,            \* position in PE::_parse_imports / the constructor
    imports,       \* _imports
    it,            \* index of the library the lookup phase works on
    ret,           \* value returned by _parse_imports
    log,           \* messages sent to PRINT_ERROR / PRINT_WARNING
    initialized,   \* _initialized
    query,         \* the last query made and its result
    hist           \* history: file positions the parser read from

vars == <<file, ioh, dirRva, params, cursor, pc, imports, it, ret, log,
          initialized, query, hist>>

-----------------------------------------------------------------------------
(* Bounds of the model *)

MaxLibs == 2
MaxEntries == 2

-----------------------------------------------------------------------------
(* Constants of the program *)

DescriptorSize == 20
ThunkSize32 == 4
ThunkSize64 == 8
HintSize == 2
PE32PlusMagic == 523
PE32Magic == 267

\* 0x80000000 and 0x8000000000000000 as the bytes of a uint64
OrdinalMask32 == <<0, 0, 0, 128, 0, 0, 0, 0>>
OrdinalMask64 == <<0, 0, 0, 0, 0, 0, 0, 128>>
\* 0x7FFFFFFF as the bytes of a uint64
HintNameRvaMask == <<255, 255, 255, 127, 0, 0, 0, 0>>
\* 0x7FFF as the bytes of a uint64
OrdinalLabelMask == <<255, 127, 0, 0, 0, 0, 0, 0>>

NoHeader == [Magic |-> 0, parsed |-> FALSE]
Huge == -1   \* an unsigned 32-bit value of 2^31 or more

-----------------------------------------------------------------------------
(* Bytes and integers *)

Min(a, b) == IF a < b THEN a ELSE b

Zeros(n) == [k \in 1..n |-> 0]

IsZero(b) == \A k \in 1..Len(b) : b[k] = 0

\* bitwise AND of two bytes
And8(a, b) ==
    LET B(x, k) == (x \div k) % 2
    IN  IF b = 255 THEN a
        ELSE IF b = 0 THEN 0
        ELSE B(a, 1) * B(b, 1) + 2 * B(a, 2) * B(b, 2) + 4 * B(a, 4) * B(b, 4)
             + 8 * B(a, 8) * B(b, 8) + 16 * B(a, 16) * B(b, 16)
             + 32 * B(a, 32) * B(b, 32) + 64 * B(a, 64) * B(b, 64)
             + 128 * B(a, 128) * B(b, 128)

\* x & y on two little-endian byte tuples of one length
AndBytes(x, y) == [k \in 1..Len(x) |-> And8(x[k], y[k])]

\* the value of a little-endian byte tuple, Huge when it needs bit 31 or more
ToNat(b) ==
    IF \E k \in 1..Len(b) : (k > 4 /\ b[k] # 0) \/ (k = 4 /\ b[k] >= 128)
    THEN Huge
    ELSE LET At(k) == IF k <= Len(b) THEN b[k] ELSE 0
         IN  At(1) + 256 * At(2) + 65536 * At(3) + 16777216 * At(4)

LE16(n) == <<n % 256, (n \div 256) % 256>>

LE32(n) == <<n % 256, (n \div 256) % 256, (n \div 65536) % 256,
             (n \div 16777216) % 256>>

RECURSIVE Flatten(_, _)
Flatten(f, n) == IF n = 0 THEN <<>> ELSE Flatten(f, n - 1) \o f[n]

\* operator<<(unsigned) of a std::stringstream: the decimal digits, as ASCII
RECURSIVE Decimal(_)
Decimal(n) ==
    IF n < 10 THEN <<48 + n>> ELSE Decimal(n \div 10) \o <<48 + (n % 10)>>

-----------------------------------------------------------------------------
(* The file handle *)

\* fread(buf, 1, n, f) at position cur: the bytes read, fewer than n at EOF
Fread(f, cur, n) ==
    IF cur = Huge \/ cur >= Len(f) THEN <<>>
    ELSE SubSeq(f, cur + 1, Min(cur + n, Len(f)))

\* fseek(f, off, SEEK_SET) succeeds for every non-negative offset
FseekOk(off) == off # Huge /\ off >= 0

\* utils::read_ascii_string: bytes up to a null or the end of the file;
\* the result is only a string, `next` is the cursor it leaves
RECURSIVE ReadAsciiFrom(_, _, _)
ReadAsciiFrom(f, cur, acc) ==
    LET c == Fread(f, cur, 1)
    IN  IF Len(c) # 1 THEN [str |-> acc, next |-> cur, terminated |-> FALSE]
        ELSE IF c[1] = 0 THEN [str |-> acc, next |-> cur + 1, terminated |-> TRUE]
        ELSE ReadAsciiFrom(f, cur + 1, Append(acc, c[1]))

read_ascii_string(f, cur) == ReadAsciiFrom(f, cur, <<>>)

\* utils::read_string_at_offset: reads the null-terminated string at `off`
\* and leaves the cursor where it was
read_string_at_offset(f, off) ==
    IF ~FseekOk(off) THEN [ok |-> FALSE, str |-> <<>>]
    ELSE LET r == read_ascii_string(f, off)
         IN  [ok |-> r.terminated, str |-> r.str]

-----------------------------------------------------------------------------
(* Section map and RVA translation *)

Sections == << [VirtualAddress |-> 256, VirtualSize |-> 4096,
                PointerToRawData |-> 4] >>

\* PE::_rva_to_offset: 0 when no section contains the RVA
_rva_to_offset(rva) ==
    IF rva = Huge THEN 0
    ELSE LET hit == {s \in 1..Len(Sections) :
                        /\ Sections[s].VirtualAddress <= rva
                        /\ rva < Sections[s].VirtualAddress + Sections[s].VirtualSize}
         IN  IF hit = {} THEN 0
             ELSE LET s == CHOOSE s \in hit : \A t \in hit : s <= t
                  IN  rva - Sections[s].VirtualAddress + Sections[s].PointerToRawData

\* PE::_reach_directory: the offset of the directory, 0 when it is absent
\* or lies in no section
_reach_directory(rva) == IF rva = 0 THEN 0 ELSE _rva_to_offset(rva)

-----------------------------------------------------------------------------
(* The inputs: images built from a description, then damaged in one place *)

EntryKinds == {"ord", "name"}

OtherKind(k) == IF k = "ord" THEN "name" ELSE "ord"

\* the description of an image: library i has libs[i] lookup entries, of
\* alternating kinds, the first of kind `first`
LibLists == UNION {[1..k -> 0..MaxEntries] : k \in 0..MaxLibs}

KindOf(p, i, j) == IF j % 2 = 1 THEN p.first ELSE OtherKind(p.first)

EntrySize(bits) == IF bits = 64 THEN ThunkSize64 ELSE ThunkSize32

\* what the description puts in the file
LibName(i) == <<106 + i>>                      \* "k", "l", "m"
FuncName(i, j) == <<67, 96 + j + 4 * (i - 1)>> \* "Ca", "Cb", "Ce", ...
HintOf(i, j) == 256 + 10 * i + j
OrdinalOf(i, j) == 10 * i + j
\* an ordinal that needs bit 15, and an RVA below every section
Damage == [ordinal |-> 40000, rva |-> 16]
HighOrdinal == Damage.ordinal
SmallRva == Damage.rva

\* file offsets of the layout
HeaderLen == Sections[1].PointerToRawData
NameSlot == HeaderLen
NameOff(i) == NameSlot + 2 * (i - 1)
HintNameBase == NameSlot + 2 * MaxLibs
HintNameOff(i, j) == HintNameBase + 5 * ((i - 1) * MaxEntries + (j - 1))
TableBase == HintNameBase + 5 * MaxLibs * MaxEntries
TableOff(p, i) == TableBase + (i - 1) * (MaxEntries + 1) * EntrySize(p.bits)
DescBase(p) == TableBase + MaxLibs * (MaxEntries + 1) * EntrySize(p.bits)
DescOff(p, i) == DescBase(p) + DescriptorSize * (i - 1)
SentinelOff(p) == DescOff(p, Len(p.libs) + 1)
TailOff(p) == SentinelOff(p) + DescriptorSize
FullLen(p) == TailOff(p) + 3

RvaOf(off) == off - Sections[1].PointerToRawData + Sections[1].VirtualAddress

NoMutation == [kind |-> "none", lib |-> 0, ent |-> 0]

LibMutations == {"oft_zero", "ft_zero", "both_zero", "name_literal",
                 "name_unreadable", "dup_name", "thunk_unmapped", "thunk_eof",
                 "ft_unmapped", "thunk_self"}

OrdMutations == {"high_ordinal"}

NameMutations == {"hn_unmapped", "hn_eof", "name_eof", "empty_name", "bit32",
                  "hn_self"}

MutationsOf(bits, first, libs) ==
    {NoMutation}
    \cup {[kind |-> k, lib |-> 0, ent |-> 0] :
            k \in {"no_header", "no_directory", "cut_sentinel", "cut_in_sentinel",
                   "sentinel_fields"}}
    \cup {[kind |-> k, lib |-> i, ent |-> 0] : k \in LibMutations, i \in 1..Len(libs)}
    \cup {m \in [kind : OrdMutations \cup NameMutations, lib : 1..Len(libs),
                 ent : 1..MaxEntries] :
            /\ m.ent <= libs[m.lib]
            /\ LET k == KindOf([first |-> first], m.lib, m.ent)
               IN  \/ k = "ord" /\ m.kind \in OrdMutations
                   \/ k = "name" /\ m.kind \in NameMutations
            /\ m.kind = "bit32" => bits = 64}

Inputs ==
    {p \in [bits : {32, 64}, first : EntryKinds, libs : LibLists,
            mut : [kind : {"none", "no_header", "no_directory", "cut_sentinel",
                           "cut_in_sentinel", "sentinel_fields"}
                          \cup LibMutations \cup OrdMutations \cup NameMutations,
                   lib : 0..MaxLibs, ent : 0..MaxEntries]] :
        /\ p.mut \in MutationsOf(p.bits, p.first, p.libs)
        /\ p.mut.kind = "dup_name" => p.mut.lib > 1}

Hits(p, k, i, j) == p.mut.kind = k /\ p.mut.lib = i /\ p.mut.ent = j

\* the bytes of lookup entry j of library i
EntryBytes(p, i, j) ==
    LET wide == IF p.bits = 64 THEN <<0, 0, 0>> ELSE <<>>
        high == IF p.bits = 64 THEN <<0, 0, 0, 0>> ELSE <<>>
        ord  == IF Hits(p, "high_ordinal", i, j) THEN HighOrdinal ELSE OrdinalOf(i, j)
        rva  == IF Hits(p, "hn_unmapped", i, j) THEN SmallRva
                ELSE IF Hits(p, "hn_eof", i, j) THEN RvaOf(FullLen(p) - 1)
                ELSE IF Hits(p, "name_eof", i, j) THEN RvaOf(TailOff(p))
                ELSE IF Hits(p, "empty_name", i, j) THEN RvaOf(SentinelOff(p))
                ELSE IF Hits(p, "hn_self", i, j) THEN RvaOf(TableOff(p, i))
                ELSE RvaOf(HintNameOff(i, j))
    IN  IF KindOf(p, i, j) = "ord"
        THEN IF p.bits = 64 THEN LE32(ord) \o <<0, 0, 0, 128>>
             ELSE [LE32(ord) EXCEPT ![4] = @ + 128]
        ELSE IF Hits(p, "bit32", i, j) THEN LE32(rva) \o <<1, 0, 0, 0>>
        ELSE LE32(rva) \o high

\* the lookup table slot of library i: its entries, the null entry, padding
TableBytes(p, i) ==
    LET n == IF i <= Len(p.libs) THEN p.libs[i] ELSE 0
    IN  Flatten([j \in 1..MaxEntries |->
                    IF j <= n THEN EntryBytes(p, i, j) ELSE Zeros(EntrySize(p.bits))],
                MaxEntries)
        \o Zeros(EntrySize(p.bits))

HintNameBytes(p, i, j) ==
    IF i <= Len(p.libs) /\ j <= p.libs[i] /\ KindOf(p, i, j) = "name"
    THEN LE16(HintOf(i, j)) \o FuncName(i, j) \o <<0>>
    ELSE Zeros(5)

\* the IMAGE_IMPORT_DESCRIPTOR of library i
DescBytes(p, i) ==
    LET table == LE32(RvaOf(TableOff(p, i)))
        empty == LE32(RvaOf(TableOff(p, i) + p.libs[i] * EntrySize(p.bits)))
        k     == IF p.mut.lib = i /\ p.mut.ent = 0 THEN p.mut.kind ELSE "none"
        oft   == IF k \in {"oft_zero", "both_zero", "ft_unmapped"} THEN Zeros(4)
                 ELSE IF k = "thunk_unmapped" THEN LE32(SmallRva)
                 ELSE IF k = "thunk_self" THEN LE32(RvaOf(DescOff(p, i)))
                 ELSE IF k = "thunk_eof" THEN LE32(RvaOf(FullLen(p) - 2))
                 ELSE table
        ft    == IF k \in {"ft_zero", "both_zero"} THEN Zeros(4)
                 ELSE IF k = "oft_zero" THEN table
                 ELSE IF k = "ft_unmapped" THEN LE32(SmallRva)
                 ELSE empty
        name  == IF k = "name_literal" THEN LE32(NameOff(i))
                 ELSE IF k = "name_unreadable" THEN LE32(RvaOf(FullLen(p) + 8))
                 ELSE IF k = "dup_name" THEN LE32(RvaOf(NameOff(1)))
                 ELSE LE32(RvaOf(NameOff(i)))
    IN  oft \o LE32(i) \o Zeros(4) \o name \o ft

SentinelBytes(p) ==
    IF p.mut.kind = "sentinel_fields"
    THEN Zeros(4) \o LE32(9) \o LE32(9) \o LE32(RvaOf(NameOff(1))) \o Zeros(4)
    ELSE Zeros(DescriptorSize)

FullFile(p) ==
    LET N == Len(p.libs)
    IN  <<77, 90, 144, 0>>
        \o Flatten([i \in 1..MaxLibs |->
                       IF i <= N THEN LibName(i) \o <<0>> ELSE Zeros(2)], MaxLibs)
        \o Flatten([i \in 1..MaxLibs |->
                       Flatten([j \in 1..MaxEntries |-> HintNameBytes(p, i, j)],
                               MaxEntries)], MaxLibs)
        \o Flatten([i \in 1..MaxLibs |-> TableBytes(p, i)], MaxLibs)
        \o Flatten([i \in 1..N |-> DescBytes(p, i)], N)
        \o SentinelBytes(p)
        \o <<1, 1, 66>>

BuildFile(p) ==
    IF p.mut.kind = "cut_sentinel" THEN SubSeq(FullFile(p), 1, SentinelOff(p))
    ELSE IF p.mut.kind = "cut_in_sentinel"
    THEN SubSeq(FullFile(p), 1, SentinelOff(p) + 10)
    ELSE FullFile(p)

-----------------------------------------------------------------------------
(* Initial state: the PE object before _parse_imports runs *)

NoQuery == [op |-> "none"]

Init ==
    /\ params \in Inputs
    /\ file = BuildFile(params)
    /\ ioh = IF params.mut.kind = "no_header" THEN NoHeader
             ELSE [Magic |-> IF params.bits = 64 THEN PE32PlusMagic ELSE PE32Magic,
                   parsed |-> TRUE]
    /\ dirRva = IF params.mut.kind = "no_directory" THEN 0
                ELSE RvaOf(DescBase(params))
    /\ cursor = 0
    /\ pc = "start"
    /\ imports = <<>>
    /\ it = 0
    /\ ret = FALSE          \* read only once pc = "returned"
    /\ log = <<>>
    /\ initialized = FALSE
    /\ query = NoQuery
    /\ hist = [desc |-> <<>>, ilt |-> <<>>, entry |-> <<>>, hintname |-> <<>>,
               sentinels |-> {}]

Input == <<file, ioh, dirRva, params>>

-----------------------------------------------------------------------------
(* PE::_parse_imports *)

\* return from _parse_imports with value v after logging msgs
Return(v, msgs) ==
    /\ ret' = v
    /\ log' = log \o msgs
    /\ pc' = "returned"

Error(text) == <<[level |-> "error", text |-> text]>>
Warning(text) == <<[level |-> "warning", text |-> text]>>

\* mutant: the fatal conditions return false
GiveUp_Abort(text) == Return(FALSE, Error(text))

\* PRINT_ERROR followed by "return true": the parse of the imports is given
\* up, the parse of the image is not
GiveUp(text) == Return(TRUE, Error(text))

\* mutant: an unreadable name always ends the table
KeepAvailableImports_Always(n) == n >= 0

\* line 55: a name that cannot be read ends the table when libraries were read
KeepAvailableImports(n) == n > 0

\* lines 24-29: the guards, and the seek to the import directory
Start ==
    /\ pc = "start"
    /\ IF ~ioh.parsed
       THEN /\ Return(FALSE, <<>>)
            /\ UNCHANGED cursor
       ELSE LET off == _reach_directory(dirRva)
            IN  IF off = 0
                THEN /\ Return(TRUE, <<>>)
                     /\ UNCHANGED cursor
                ELSE /\ cursor' = off
                     /\ pc' = "descriptors"
                     /\ UNCHANGED <<ret, log>>
    /\ UNCHANGED <<Input, imports, it, initialized, query, hist>>

\* the fields of the 20 bytes of an IMAGE_IMPORT_DESCRIPTOR
DecodeDescriptor(b) ==
    [OriginalFirstThunk |-> SubSeq(b, 1, 4),
     TimeDateStamp      |-> SubSeq(b, 5, 8),
     ForwarderChain     |-> SubSeq(b, 9, 12),
     Name               |-> SubSeq(b, 13, 16),
     FirstThunk         |-> SubSeq(b, 17, 20),
     NameStr            |-> <<>>]

\* mutant: only a record of twenty zero bytes ends the loop
IsNullDescriptor_AllZero(iid) ==
    /\ IsZero(iid.OriginalFirstThunk) /\ IsZero(iid.TimeDateStamp)
    /\ IsZero(iid.ForwarderChain) /\ IsZero(iid.Name) /\ IsZero(iid.FirstThunk)

\* line 43: the exit condition of the descriptor loop
IsNullDescriptor(iid) == IsZero(iid.OriginalFirstThunk) /\ IsZero(iid.FirstThunk)

\* lines 48-51: where the library name is read from
NameOffset(iid) ==
    LET offset == _rva_to_offset(ToNat(iid.Name))
    IN  IF offset = 0 THEN ToNat(iid.Name) ELSE offset

\* lines 31-67: one iteration of the descriptor loop
ReadDescriptor ==
    /\ pc = "descriptors"
    /\ \E b \in {Fread(file, cursor, DescriptorSize)} :
       \E iid \in {DecodeDescriptor(b \o Zeros(DescriptorSize - Len(b)))} :
       \E name_offset \in {NameOffset(iid)} :
       \E name \in {read_string_at_offset(file, name_offset)} :
           /\ cursor' = cursor + Len(b)
           /\ IF Len(b) # DescriptorSize
              THEN /\ GiveUp("Could not read the IMAGE_IMPORT_DESCRIPTOR.")
                   /\ UNCHANGED <<imports, it, hist>>
              ELSE IF IsNullDescriptor(iid)
              THEN /\ pc' = "lookup"
                   /\ it' = 1
                   /\ hist' = [hist EXCEPT !.sentinels = @ \cup {<<"desc", cursor>>}]
                   /\ UNCHANGED <<imports, ret, log>>
              ELSE IF ~name.ok
              THEN IF KeepAvailableImports(Len(imports))
                   THEN /\ pc' = "lookup"
                        /\ it' = 1
                        /\ log' = log \o Warning("Could not read an import's name.")
                        /\ UNCHANGED <<imports, ret, hist>>
                   ELSE /\ GiveUp("Could not read an import's name.")
                        /\ UNCHANGED <<imports, it, hist>>
              ELSE /\ imports' = Append(imports,
                                        [first |-> [iid EXCEPT !.NameStr = name.str],
                                         second |-> <<>>])
                   /\ hist' = [hist EXCEPT !.desc = Append(@, cursor),
                                           !.entry = Append(@, <<>>),
                                           !.hintname = Append(@, <<>>)]
                   /\ UNCHANGED <<pc, it, ret, log>>
    /\ UNCHANGED <<Input, initialized, query>>

\* mutant: the table is always taken from FirstThunk
ThunkRva_FirstThunk(iid) == ToNat(iid.FirstThunk)

\* lines 73-78: the RVA of the lookup table of a library
ThunkRva(iid) ==
    IF ~IsZero(iid.OriginalFirstThunk) THEN ToNat(iid.OriginalFirstThunk)
    ELSE ToNat(iid.FirstThunk)

\* mutant: an RVA that lies in no section is taken as a file offset, as
\* for the library name
LookupTableOffset_Literal(iid) ==
    IF _rva_to_offset(ThunkRva(iid)) = 0 THEN ThunkRva(iid)
    ELSE _rva_to_offset(ThunkRva(iid))

\* lines 72-78: ilt_offset, 0 when the RVA lies in no section
LookupTableOffset(iid) == _rva_to_offset(ThunkRva(iid))

\* lines 70-83: the head of the loop over the libraries; line 138 at its end
ReachLookupTable ==
    /\ pc = "lookup"
    /\ IF it > Len(imports)
       THEN /\ Return(TRUE, <<>>)
            /\ UNCHANGED <<cursor, hist>>
       ELSE \E ilt_offset \in {LookupTableOffset(imports[it].first)} :
                IF ilt_offset = 0 \/ ~FseekOk(ilt_offset)
                THEN /\ GiveUp("Could not reach an IMPORT_LOOKUP_TABLE.")
                     /\ UNCHANGED <<cursor, hist>>
                ELSE /\ cursor' = ilt_offset
                     /\ pc' = "entries"
                     /\ hist' = [hist EXCEPT !.ilt = Append(@, ilt_offset)]
                     /\ UNCHANGED <<ret, log>>
    /\ UNCHANGED <<Input, imports, it, initialized, query>>

\* line 92
size_to_read == IF ioh.Magic = PE32PlusMagic THEN ThunkSize64 ELSE ThunkSize32

\* mutant: AddressOfData is not zeroed before the read
ReadAddressOfData_Uninitialized(b) == b \o [k \in 1..(8 - Len(b)) |-> 204]

\* line 93: fread into the zeroed 8-byte AddressOfData
ReadAddressOfData(b) == b \o Zeros(8 - Len(b))

\* lines 106-107: the import is by ordinal when the top bit is set
mask == IF size_to_read = 8 THEN OrdinalMask64 ELSE OrdinalMask32

ByOrdinal(AddressOfData) == ~IsZero(AndBytes(AddressOfData, mask))

\* mutant: every bit of AddressOfData is taken as the RVA
HintNameRva_AllBits(AddressOfData) == ToNat(AddressOfData)

\* line 100: the exit condition of the lookup table loop
IsNullEntry(AddressOfData) == IsZero(AddressOfData)

\* line 111: the RVA of the HINT/NAME entry
HintNameRva(AddressOfData) == ToNat(AndBytes(AddressOfData, HintNameRvaMask))

\* mutant: the cursor is not put back
RestoredCursor_Lost(saved_offset, after_name) == after_name

\* mutant: the cursor is put back where the lookup entry begins
RestoredCursor_Rewind(saved_offset, after_name) == saved_offset - size_to_read

\* line 129: the cursor after the HINT/NAME entry was read
RestoredCursor(saved_offset, after_name) == saved_offset

\* lines 85-135: one iteration of the lookup table loop
ReadLookupEntry ==
    /\ pc = "entries"
    /\ \E b \in {Fread(file, cursor, size_to_read)} :
       \E AddressOfData \in {ReadAddressOfData(b)} :
       \E rva \in {HintNameRva(AddressOfData)} :
       \E table_offset \in {_rva_to_offset(rva)} :
       \E saved_offset \in {cursor + Len(b)} :
       \E h \in {Fread(file, table_offset, HintSize)} :
       \E s \in {read_ascii_string(file, table_offset + Len(h))} :
       LET Push(import, hn) ==
               /\ imports' = [imports EXCEPT ![it].second = Append(@, import)]
               /\ hist' = [hist EXCEPT !.entry[it] = Append(@, cursor),
                                       !.hintname[it] = Append(@, hn)]
               /\ UNCHANGED <<pc, it, ret, log>>
       IN  IF Len(b) # size_to_read
           THEN /\ GiveUp("Could not read the IMPORT_LOOKUP_TABLE.")
                /\ cursor' = saved_offset
                /\ UNCHANGED <<imports, it, hist>>
           ELSE IF IsNullEntry(AddressOfData)
           THEN /\ pc' = "lookup"
                /\ it' = it + 1
                /\ cursor' = saved_offset
                /\ hist' = [hist EXCEPT !.sentinels = @ \cup {<<"entry", it, cursor>>}]
                /\ UNCHANGED <<imports, ret, log>>
           ELSE IF ByOrdinal(AddressOfData)
           THEN /\ cursor' = saved_offset
                /\ Push([AddressOfData |-> AddressOfData, Hint |-> 0, Name |-> <<>>], 0)
           ELSE IF table_offset = 0
           THEN /\ GiveUp("Could not reach the HINT/NAME table.")
                /\ cursor' = saved_offset
                /\ UNCHANGED <<imports, it, hist>>
           ELSE IF ~FseekOk(table_offset) \/ Len(h) # HintSize
           THEN /\ GiveUp("Could not read a HINT/NAME hint.")
                /\ cursor' = table_offset + Len(h)
                /\ UNCHANGED <<imports, it, hist>>
           ELSE /\ cursor' = RestoredCursor(saved_offset, s.next)
                /\ Push([AddressOfData |-> AddressOfData, Hint |-> ToNat(h),
                         Name |-> s.str], table_offset)
    /\ UNCHANGED <<Input, initialized, query>>

\* the constructor of PE: the object is usable when the parsers returned true
Construct ==
    /\ pc = "returned"
    /\ pc' = "constructed"
    /\ initialized' = (ret = TRUE)
    /\ UNCHANGED <<Input, cursor, imports, it, ret, log, query, hist>>

-----------------------------------------------------------------------------
(* The queries: get_imported_dlls, get_imported_functions, find_imports *)

\* a regular expression of the form  prefix  or  prefix.*
Regex(prefix, star) == [prefix |-> prefix, star |-> star]

\* the case folding of boost::regex::icase on ASCII
ToLower(c) == IF 65 <= c /\ c <= 90 THEN c + 32 ELSE c

Fold(str, icase) == IF icase THEN [k \in 1..Len(str) |-> ToLower(str[k])] ELSE str

\* boost::regex_match: the whole of str matches e
regex_match(str, e, icase) ==
    LET t == Fold(str, icase)
        q == Fold(e.prefix, icase)
    IN  /\ Len(t) >= Len(q)
        /\ SubSeq(t, 1, Len(q)) = q
        /\ e.star \/ Len(t) = Len(q)

\* the elements of seq that satisfy Keep, in order
RECURSIVE SelectIdx(_, _)
SelectIdx(n, keep) ==
    IF n = 0 THEN <<>>
    ELSE IF n \in keep THEN Append(SelectIdx(n - 1, keep), n)
    ELSE SelectIdx(n - 1, keep)

\* lines 143-154
get_imported_dlls ==
    IF ~initialized THEN <<>>
    ELSE [i \in 1..Len(imports) |-> imports[i].first.NameStr]

\* lines 186-188: the label of an import that has no name
OrdinalLabel(AddressOfData) ==
    <<35>> \o Decimal(ToNat(AndBytes(AddressOfData, OrdinalLabelMask)))

\* lines 179-190: the listing of the entries of one library
FunctionLabels(entries) ==
    [j \in 1..Len(entries) |->
        IF entries[j].Name # <<>> THEN entries[j].Name
        ELSE OrdinalLabel(entries[j].AddressOfData)]

\* mutant: the search goes on after a match, the last library wins
FindLibrary_Last(dll) ==
    LET hit == {i \in 1..Len(imports) : imports[i].first.NameStr = dll}
    IN  IF hit = {} THEN 0 ELSE CHOOSE i \in hit : \A k \in hit : i >= k

\* lines 168-175: the first library of that exact name, 0 when there is none
FindLibrary(dll) ==
    LET hit == {i \in 1..Len(imports) : imports[i].first.NameStr = dll}
    IN  IF hit = {} THEN 0 ELSE CHOOSE i \in hit : \A k \in hit : i <= k

\* lines 158-194
get_imported_functions(dll) ==
    IF ~initialized THEN <<>>
    ELSE IF FindLibrary(dll) = 0 THEN <<>>
    ELSE FunctionLabels(imports[FindLibrary(dll)].second)

\* lines 198-221: the indices of the libraries whose name matches
_find_imported_dlls(name_regexp, case_sensitivity) ==
    IF ~initialized THEN <<>>
    ELSE SelectIdx(Len(imports),
                   {i \in 1..Len(imports) :
                       regex_match(imports[i].first.NameStr, name_regexp,
                                   ~case_sensitivity)})

\* the default of the parameter case_sensitivity of _find_imported_dlls
DefaultCaseSensitivity == TRUE

\* line 234: the libraries find_imports looks into
MatchingDlls(dll_name_regexp, case_sensitivity) ==
    _find_imported_dlls(dll_name_regexp, DefaultCaseSensitivity)

\* lines 248-256: the names of one library that match
MatchingNames(entries, e, icase) ==
    LET keep == {j \in 1..Len(entries) :
                    /\ entries[j].Name # <<>>
                    /\ regex_match(entries[j].Name, e, icase)}
        idx == SelectIdx(Len(entries), keep)
    IN  [k \in 1..Len(idx) |-> entries[idx[k]].Name]

\* lines 225-259
find_imports(function_name_regexp, dll_name_regexp, case_sensitivity) ==
    IF ~initialized THEN <<>>
    ELSE LET matching_dlls == MatchingDlls(dll_name_regexp, case_sensitivity)
         IN  Flatten([k \in 1..Len(matching_dlls) |->
                         MatchingNames(imports[matching_dlls[k]].second,
                                       function_name_regexp, ~case_sensitivity)],
                     Len(matching_dlls))

\* the arguments the queries are made with
DllArgs == {LibName(i) : i \in 1..MaxLibs} \cup {<<75>>}

DllPatterns == {Regex(<<75>>, FALSE), Regex(<<107>>, FALSE), Regex(<<>>, TRUE)}

FunctionPatterns == {Regex(<<67>>, TRUE), Regex(<<99, 97>>, FALSE)}

\* the queries are const: one of them is made on each constructed object
Queried(q) ==
    /\ pc = "constructed"
    /\ query = NoQuery
    /\ query' = q
    /\ UNCHANGED <<Input, cursor, pc, imports, it, ret, log, initialized, hist>>

ListLibraries ==
    Queried([op |-> "get_imported_dlls", result |-> get_imported_dlls])

ListFunctions ==
    \E dll \in DllArgs :
        Queried([op |-> "get_imported_functions", dll |-> dll,
                 result |-> get_imported_functions(dll)])

Search ==
    \E f \in FunctionPatterns, d \in DllPatterns, cs \in BOOLEAN :
        Queried([op |-> "find_imports", function |-> f, dll |-> d,
                 case_sensitivity |-> cs, result |-> find_imports(f, d, cs)])

-----------------------------------------------------------------------------

Next ==
    \/ Start
    \/ ReadDescriptor
    \/ ReachLookupTable
    \/ ReadLookupEntry
    \/ Construct
    \/ ListLibraries
    \/ ListFunctions
    \/ Search

Spec == Init /\ [][Next]_vars

\* _parse_imports alone: straight-line code run by the constructor, so a step
\* that can be taken is taken
ParseNext ==
    \/ Start
    \/ ReadDescriptor
    \/ ReachLookupTable
    \/ ReadLookupEntry

\* what a step of the parse can change, but for the value returned
parsing == <<cursor, pc, imports, it, log, hist>>

FairSpec == Init /\ [][ParseNext]_vars /\ WF_parsing(ParseNext)

-----------------------------------------------------------------------------
(* What the file holds, read off the bytes without the parser *)

Finished == pc \in {"returned", "constructed"}

ErrorLogged == \E k \in 1..Len(log) : log[k].level = "error"

WarningLogged == \E k \in 1..Len(log) : log[k].level = "warning"

BytesAt(off, n) == SubSeq(file, off + 1, off + n)

Readable(off, n) == off >= 0 /\ off + n <= Len(file)

Width == IF params.bits = 64 THEN 8 ELSE 4

TopBitSet(raw) == raw[Len(raw)] >= 128

ClearTop(raw) == [raw EXCEPT ![Len(raw)] = @ % 128]

Widen(raw) == raw \o Zeros(8 - Len(raw))

\* a descriptor record with both thunk fields zero lies at off
NullRecordAt(off) ==
    /\ Readable(off, 20)
    /\ BytesAt(off, 4) = <<0, 0, 0, 0>>
    /\ BytesAt(off + 16, 4) = <<0, 0, 0, 0>>

\* a lookup entry of value 0 lies at off
NullEntryAt(off) == Readable(off, Width) /\ BytesAt(off, Width) = Zeros(Width)

NumLibs == Len(params.libs)

\* the names and the items the description gave the file
NameInFile(i) == IF Hits(params, "dup_name", i, 0) THEN LibName(1) ELSE LibName(i)

NamesInFile == [i \in 1..NumLibs |-> NameInFile(i)]

\* item j of a listing is the item of entry j of library i
ItemOfEntry(item, i, j) ==
    IF KindOf(params, i, j) = "name" THEN item = FuncName(i, j)
    ELSE Len(item) >= 2 /\ item[1] = 35

ListingOf(listing, i) ==
    /\ Len(listing) = params.libs[i]
    /\ \A j \in 1..Len(listing) : ItemOfEntry(listing[j], i, j)

\* images whose import directory is well formed
WellFormed ==
    params.mut.kind \in {"none", "oft_zero", "ft_zero", "name_literal", "dup_name",
                         "sentinel_fields", "high_ordinal"}

-----------------------------------------------------------------------------
(* C1 *)

\* C1 as stated: on a well-formed import directory get_imported_dlls returns
\* the N names in file order and get_imported_functions returns, for every
\* library i, the M_i items of that library in file order.
C1_Original ==
    WellFormed =>
        /\ query.op = "get_imported_dlls" => query.result = NamesInFile
        /\ query.op = "get_imported_functions" =>
              \A i \in 1..NumLibs :
                  NameInFile(i) = query.dll => ListingOf(query.result, i)

\* C1, amended: on a well-formed import directory get_imported_dlls returns
\* the N names in file order, and get_imported_functions returns the M_i items
\* in file order for every library i that is the first library of its name (a
\* name that several libraries bear lists the entries of the first of them).
C1_Listings ==
    WellFormed =>
        /\ query.op = "get_imported_dlls" => query.result = NamesInFile
        /\ query.op = "get_imported_functions" =>
              \A i \in 1..NumLibs :
                  /\ NameInFile(i) = query.dll
                  /\ \A h \in 1..(i - 1) : NameInFile(h) # query.dll
                  => ListingOf(query.result, i)

C1_Witness ==
    /\ WellFormed
    /\ NumLibs = 2
    /\ params.libs[2] = 2
    /\ query.op = "get_imported_functions"
    /\ query.dll = LibName(2)
    /\ Len(query.result) = 2

-----------------------------------------------------------------------------
(* C2 *)

DirectoryOffset == DescBase(params)

RecordOffsets == {DirectoryOffset + 20 * k : k \in 0..(MaxLibs + 1)}

\* C2: a descriptor whose OriginalFirstThunk and FirstThunk are both 0 ends
\* the descriptor scan whatever else it holds; no library of the table has both
\* fields 0, and no record that lies after such a record becomes a library.
C2_NoSentinelInTable ==
    /\ \A i \in 1..Len(imports) :
          /\ ~(imports[i].first.OriginalFirstThunk = <<0, 0, 0, 0>>
               /\ imports[i].first.FirstThunk = <<0, 0, 0, 0>>)
          /\ \A off \in RecordOffsets : off <= hist.desc[i] => ~NullRecordAt(off)
    /\ pc = "descriptors" =>
          \A off \in RecordOffsets : off < cursor => ~NullRecordAt(off)

C2_Sentinel ==
    /\ []C2_NoSentinelInTable
    /\ [][pc = "descriptors" /\ NullRecordAt(cursor)
            => pc' = "lookup" /\ imports' = imports]_vars

\* the first record has zero thunks and a name, and a real library follows it
C2_Witness ==
    /\ Hits(params, "both_zero", 1, 0)
    /\ NumLibs = 2
    /\ pc = "lookup"
    /\ imports = <<>>
    /\ BytesAt(DirectoryOffset + 12, 4) # <<0, 0, 0, 0>>

-----------------------------------------------------------------------------
(* C3 *)

EntryOffsets(start) == {start + Width * k : k \in 0..(MaxEntries + 1)}

\* C3: a lookup entry of value 0 ends the scan of the current library, for
\* 4-byte and for 8-byte entries; no stored entry has AddressOfData 0 and no
\* entry that lies after a 0 entry is stored for that library.
C3_NoSentinelInEntries ==
    /\ \A i \in 1..Len(imports) : \A j \in 1..Len(imports[i].second) :
          /\ imports[i].second[j].AddressOfData # <<0, 0, 0, 0, 0, 0, 0, 0>>
          /\ \A off \in EntryOffsets(hist.ilt[i]) :
                off <= hist.entry[i][j] => ~NullEntryAt(off)
    /\ pc = "entries" =>
          \A off \in EntryOffsets(hist.ilt[it]) : off < cursor => ~NullEntryAt(off)

C3_Sentinel ==
    /\ []C3_NoSentinelInEntries
    /\ [][pc = "entries" /\ NullEntryAt(cursor)
            => pc' = "lookup" /\ it' = it + 1 /\ imports' = imports]_vars

\* the 0 entry of an 8-byte table was met after two stored entries
C3_Witness ==
    /\ params.bits = 64
    /\ pc = "lookup"
    /\ it = 2
    /\ Len(imports[1].second) = 2
    /\ <<"entry", 1, hist.entry[1][2] + 8>> \in hist.sentinels

-----------------------------------------------------------------------------
(* C4 and C5: the entries, and their items in the listing *)

\* library i is the one get_imported_functions(query.dll) lists
Listed(i) ==
    /\ query.op = "get_imported_functions"
    /\ i \in 1..Len(imports)
    /\ imports[i].first.NameStr = query.dll
    /\ \A h \in 1..(i - 1) : imports[h].first.NameStr # query.dll

\* the bytes of the lookup entry that became entry j of library i
RawOf(i, j) == BytesAt(hist.entry[i][j], Width)

Stored == {<<i, j>> \in (1..MaxLibs) \X (1..(MaxEntries + 1)) :
              i <= Len(imports) /\ j <= Len(imports[i].second)}

\* C4 as stated: an entry whose raw value has the top bit of its width set and
\* the other bits equal to K is stored by ordinal, with no Hint/Name read, and
\* the listing of its library shows "#K" at its position.
C4_OrdinalRoundTrip ==
    \A e \in Stored :
        LET i == e[1]
            j == e[2]
            K == ToNat(ClearTop(RawOf(i, j)))
        IN  TopBitSet(RawOf(i, j)) /\ K # Huge =>
                /\ imports[i].second[j].Name = <<>>
                /\ imports[i].second[j].AddressOfData = Widen(RawOf(i, j))
                /\ hist.hintname[i][j] = 0
                /\ Listed(i) => query.result[j] = <<35>> \o Decimal(K)

\* the Hint/Name record at off: its hint and its name, when both can be read
HintNameAt(off) ==
    LET s == ReadAsciiFrom(file, off + 2, <<>>)
    IN  [ok |-> off > 0 /\ Readable(off, 2) /\ s.terminated,
         hint |-> IF Readable(off, 2) THEN ToNat(BytesAt(off, 2)) ELSE 0,
         name |-> s.str]

\* C5 as stated: in an entry whose top bit is clear every other bit of the raw
\* value is the RVA of the Hint/Name record; the stored entry has the hint H
\* and the name S of that record, and the listing shows S at its position.
C5_Original ==
    \A e \in Stored :
        LET i == e[1]
            j == e[2]
            off == _rva_to_offset(ToNat(ClearTop(RawOf(i, j))))
            rec == HintNameAt(off)
        IN  ~TopBitSet(RawOf(i, j)) =>
                /\ hist.hintname[i][j] = off
                /\ rec.ok =>
                      /\ imports[i].second[j].Hint = rec.hint
                      /\ imports[i].second[j].Name = rec.name
                      /\ Listed(i) => query.result[j] = rec.name

\* the bits 30-0 of a raw value
Low31(raw) == ToNat([k \in 1..4 |-> IF k = 4 THEN raw[k] % 128 ELSE raw[k]])

\* images in which every Hint/Name record that is referred to can be read
AllNamesReadable ==
    WellFormed \/ params.mut.kind \in {"bit32", "empty_name"}

\* C5, amended: in an entry whose top bit is clear the bits 30-0 of the raw
\* value are the RVA of the Hint/Name record, in 32-bit and 64-bit images
\* alike (bits 62-31 of an 8-byte entry are ignored); the stored entry has the
\* hint H and the name S of that record and no entry is lost; the listing of
\* the library shows S at its position when S is not empty (an entry with an
\* empty name is listed as an ordinal).
C5_NameRoundTrip ==
    /\ \A e \in Stored :
          LET i == e[1]
              j == e[2]
              off == _rva_to_offset(Low31(RawOf(i, j)))
              rec == HintNameAt(off)
          IN  ~TopBitSet(RawOf(i, j)) =>
                  /\ hist.hintname[i][j] = off
                  /\ rec.ok =>
                        /\ imports[i].second[j].Hint = rec.hint
                        /\ imports[i].second[j].Name = rec.name
                        /\ Listed(i) /\ rec.name # <<>> =>
                              query.result[j] = rec.name
    /\ Finished /\ AllNamesReadable =>
          \A i \in 1..Len(imports) : Len(imports[i].second) = params.libs[i]

\* a name entry of an 8-byte table, with its hint and its mixed-case name
C5_Witness ==
    /\ params.bits = 64
    /\ params.first = "name"
    /\ Listed(1)
    /\ Len(imports[1].second) >= 1
    /\ imports[1].second[1].Hint = HintOf(1, 1)
    /\ imports[1].second[1].Name = <<67, 97>>
    /\ query.result[1] = <<67, 97>>

-----------------------------------------------------------------------------
(* C6 *)

\* the entries the description gave library i
EntriesInFile(i) ==
    [j \in 1..params.libs[i] |->
        [AddressOfData |-> Widen(EntryBytes(params, i, j)),
         Hint |-> IF KindOf(params, i, j) = "name" THEN HintOf(i, j) ELSE 0,
         Name |-> IF KindOf(params, i, j) = "name" THEN FuncName(i, j) ELSE <<>>]]

\* C6: the lookup table of a library is read from the offset of
\* OriginalFirstThunk when that field is not 0 and from the offset of
\* FirstThunk exactly when it is 0; a library whose table is referred to by
\* FirstThunk alone is parsed without error, with the entries it has when
\* OriginalFirstThunk refers to the table.
C6_ThunkChoice ==
    /\ \A i \in 1..Len(hist.ilt) :
          LET oft == BytesAt(hist.desc[i], 4)
              ft == BytesAt(hist.desc[i] + 16, 4)
          IN  hist.ilt[i] =
                  _rva_to_offset(ToNat(IF oft # <<0, 0, 0, 0>> THEN oft ELSE ft))
    /\ Finished /\ ioh.parsed /\ params.mut.kind \in {"none", "oft_zero"} =>
          /\ ~ErrorLogged
          /\ Len(imports) = NumLibs
          /\ \A i \in 1..NumLibs : imports[i].second = EntriesInFile(i)

\* the second library has OriginalFirstThunk 0 and got its two entries
C6_Witness ==
    /\ Hits(params, "oft_zero", 2, 0)
    /\ Finished
    /\ Len(imports) = 2
    /\ imports[2].first.OriginalFirstThunk = <<0, 0, 0, 0>>
    /\ Len(imports[2].second) = 2

-----------------------------------------------------------------------------
(* C7 *)

\* C7: when the name of a descriptor cannot be read and a library was already
\* accepted, the scan stops without that descriptor, the table stays non-empty
\* and the lookup phase runs for the accepted libraries; when it is the name of
\* the first descriptor, the parse ends at once with an error and no library.
C7_Truncation ==
    Finished /\ params.mut.kind = "name_unreadable" =>
        IF params.mut.lib > 1
        THEN /\ Len(imports) = params.mut.lib - 1
             /\ WarningLogged /\ ~ErrorLogged
             /\ Len(hist.ilt) = Len(imports)
             /\ \A i \in 1..Len(imports) :
                   /\ imports[i].first.NameStr = LibName(i)
                   /\ imports[i].second = EntriesInFile(i)
        ELSE /\ imports = <<>>
             /\ ErrorLogged /\ ~WarningLogged
             /\ hist.ilt = <<>>
             /\ it = 0

\* the name of the second descriptor is unreadable; the first library is kept
\* and its lookup table was parsed
C7_Witness ==
    /\ Hits(params, "name_unreadable", 2, 0)
    /\ Finished
    /\ Len(imports) = 1
    /\ Len(imports[1].second) = 2
    /\ WarningLogged

-----------------------------------------------------------------------------
(* C8 *)

\* the search in which the flag governs both matches
SearchBothWays(f, d, cs) ==
    Flatten([i \in 1..Len(imports) |->
                IF regex_match(imports[i].first.NameStr, d, ~cs)
                THEN MatchingNames(imports[i].second, f, ~cs)
                ELSE <<>>],
            Len(imports))

\* C8 as stated: find_imports applies case_sensitivity to the library names as
\* to the function names, and returns in table order the non-empty names that
\* match in the libraries that match.
C8_SearchHonoursFlag ==
    query.op = "find_imports" /\ initialized =>
        query.result = SearchBothWays(query.function, query.dll,
                                      query.case_sensitivity)

-----------------------------------------------------------------------------
(* C9 *)

\* C9: after a by-name entry at position p was resolved through the Hint/Name
\* table the cursor is p + the entry size, and the entries of a library are
\* read at consecutive positions of its lookup table, wherever the Hint/Name
\* records lie.
C9_CursorRestored ==
    /\ \A e \in Stored :
          hist.entry[e[1]][e[2]] = hist.ilt[e[1]] + Width * (e[2] - 1)
    /\ pc = "entries" /\ Len(imports[it].second) > 0 =>
          LET j == Len(imports[it].second)
          IN  hist.hintname[it][j] # 0 =>
                  /\ cursor = hist.entry[it][j] + Width
                  /\ cursor # hist.hintname[it][j] + 2 + Len(imports[it].second[j].Name) + 1

\* a by-name entry whose Hint/Name record lies after the lookup table, and a
\* by-name entry whose record lies before it, each followed by the next read
C9_Witness ==
    /\ pc = "entries"
    /\ Len(imports[it].second) = 1
    /\ hist.hintname[it][1] > cursor
    /\ it = 2
    /\ Len(imports[1].second) = 2
    /\ hist.hintname[1][1] # 0
    /\ hist.hintname[1][1] < hist.ilt[1]

-----------------------------------------------------------------------------
(* C10 *)

FatalKinds == {"cut_sentinel", "cut_in_sentinel", "thunk_unmapped", "thunk_eof",
               "ft_unmapped", "hn_unmapped", "hn_eof"}

Fatal ==
    \/ params.mut.kind \in FatalKinds
    \/ Hits(params, "name_unreadable", 1, 0)

\* the entries of library i collected before the failure of the image
EntriesBeforeFailure(i) ==
    LET m == params.mut
    IN  IF m.kind \in {"cut_sentinel", "cut_in_sentinel"} THEN <<>>
        ELSE IF i < m.lib THEN EntriesInFile(i)
        ELSE IF i > m.lib \/ m.ent = 0 THEN <<>>
        ELSE SubSeq(EntriesInFile(i), 1, m.ent - 1)

\* every fatal condition stops the parse and keeps what was collected
FatalKeepsCollected ==
    Finished /\ Fatal =>
        /\ ErrorLogged
        /\ Len(imports) = (IF params.mut.kind = "name_unreadable" THEN 0 ELSE NumLibs)
        /\ \A i \in 1..Len(imports) :
              /\ imports[i].first.NameStr = LibName(i)
              /\ imports[i].second = EntriesBeforeFailure(i)

\* C10 as stated: every fatal condition stops the import parse, keeps what was
\* collected and returns a value the caller can tell from the value of a
\* successful parse.
C10_Original ==
    /\ FatalKeepsCollected
    /\ Finished /\ ErrorLogged => ret # TRUE

\* C10, amended: every fatal condition stops the import parse, keeps every
\* library and entry collected before the failure, logs an error and returns
\* true, the value of a successful parse, so that the parse of the image goes
\* on; the return value does not tell the failure from a success.
C10_FatalReturnsTrue ==
    /\ FatalKeepsCollected
    /\ Finished /\ ErrorLogged => ret = TRUE
    /\ Finished /\ ioh.parsed /\ ~ErrorLogged => ret = TRUE

\* the Hint/Name table of the second entry of the second library is out of
\* reach: the first library and the first entry are kept, true is returned
C10_Witness ==
    /\ Hits(params, "hn_unmapped", 2, 2)
    /\ Finished
    /\ ErrorLogged
    /\ ret = TRUE
    /\ Len(imports) = 2
    /\ Len(imports[1].second) = 2
    /\ Len(imports[2].second) = 1

-----------------------------------------------------------------------------
(* C11 *)

\* C11 as stated: a read failure on the hint or on the name of a Hint/Name
\* record is fatal and the entry is not appended, so every stored by-name
\* entry has a record whose hint was read and whose name ends with its null
\* inside the file.
C11_HintNameReadChecked ==
    \A e \in Stored :
        hist.hintname[e[1]][e[2]] # 0 =>
            /\ Readable(hist.hintname[e[1]][e[2]], 2)
            /\ HintNameAt(hist.hintname[e[1]][e[2]]).ok

-----------------------------------------------------------------------------
(* C12 *)

\* the RVA of the lookup table of the library whose descriptor lies at off
ThunkRvaAt(off) ==
    IF BytesAt(off, 4) # <<0, 0, 0, 0>> THEN ToNat(BytesAt(off, 4))
    ELSE ToNat(BytesAt(off + 16, 4))

InNoSection(rva) ==
    rva = Huge \/ \A s \in 1..Len(Sections) :
        \/ rva < Sections[s].VirtualAddress
        \/ rva >= Sections[s].VirtualAddress + Sections[s].VirtualSize

\* C12: when the thunk RVA of a library (OriginalFirstThunk, or FirstThunk
\* when that is 0) lies in no section, it is not used as a file offset: no
\* lookup table is read for that library, the parse ends with an error, that
\* library and the later ones keep no entry and the earlier ones keep theirs.
C12_UnmappedThunkAborts ==
    /\ \A i \in 1..Len(hist.ilt) : ~InNoSection(ThunkRvaAt(hist.desc[i]))
    /\ \A i \in 1..Len(imports) :
          InNoSection(ThunkRvaAt(hist.desc[i])) => imports[i].second = <<>>
    /\ Finished /\ params.mut.kind \in {"thunk_unmapped", "ft_unmapped"} =>
          /\ ErrorLogged
          /\ Len(imports) = NumLibs
          /\ Len(hist.ilt) = params.mut.lib - 1
          /\ \A i \in 1..NumLibs :
                imports[i].second =
                    IF i < params.mut.lib THEN EntriesInFile(i) ELSE <<>>

\* FirstThunk of the first library lies in no section and OriginalFirstThunk
\* is 0; the second library has entries in the file and none in the table
C12_Witness ==
    /\ Hits(params, "ft_unmapped", 1, 0)
    /\ NumLibs = 2
    /\ params.libs[2] = 2
    /\ Finished
    /\ ErrorLogged
    /\ Len(imports) = 2
    /\ imports[2].second = <<>>
    /\ Readable(SmallRva, Width)

-----------------------------------------------------------------------------
(* C13 *)

\* a loop is left at its sentinel or at a failure that is logged, a short
\* read at the end of the file among them
LeftDescriptors ==
    \/ <<"desc", cursor>> \in hist'.sentinels
    \/ Len(log') > Len(log)

LeftEntries ==
    \/ <<"entry", it, cursor>> \in hist'.sentinels
    \/ Len(log') > Len(log)

LoopStep ==
    /\ pc = "descriptors" /\ pc' = "descriptors" =>
          cursor' = cursor + DescriptorSize
    /\ pc = "descriptors" /\ pc' # "descriptors" => LeftDescriptors
    /\ pc = "entries" /\ pc' = "entries" => cursor' = cursor + Width
    /\ pc = "entries" /\ pc' # "entries" => LeftEntries

SizeBounded ==
    /\ DescriptorSize * Len(imports) <= Len(file)
    /\ \A i \in 1..Len(imports) : Width * Len(imports[i].second) <= Len(file)

\* C13: _parse_imports returns on every file; an iteration of the descriptor
\* loop that stays in the loop moves the cursor by 20 bytes and one of the
\* lookup loop by 4 or 8 bytes, a loop is left at a sentinel or at a logged
\* failure, and the libraries and the entries of a library fit in the file.
C13_Terminates ==
    /\ <>(pc = "returned")
    /\ [][LoopStep]_parsing
    /\ []SizeBounded

\* a lookup table that lies on the descriptor of its own library was read to
\* its end, and a file without sentinel was read to its end
C13_Witness ==
    /\ pc = "returned"
    /\ \/ /\ params.mut.kind = "thunk_self"
          /\ \E i \in 1..Len(imports) :
                /\ Len(imports[i].second) > 0
                /\ hist.ilt[i] = hist.desc[i]
       \/ /\ params.mut.kind = "hn_self"
          /\ \E e \in Stored : hist.hintname[e[1]][e[2]] = hist.ilt[e[1]]

====
